---- MODULE Spec2Model ----
(***************************************************************************)
(* A model of the birja-in.az harvesting engine, src/birja_scraper.py:     *)
(* the asyncio tasks of one process (the main task running main /          *)
(* scrape_pages / retry_failed, and the listing tasks that asyncio.gather  *)
(* runs for the cards of one page), the semaphore they share, the          *)
(* in-memory scraped_ids and failed_urls, and the four files the process   *)
(* writes.  One step of the model is one step of the asyncio event loop:   *)
(* a task runs from the point where it was suspended (a network wait, a    *)
(* sleep, a wait for the semaphore) up to its next suspension.             *)
(***************************************************************************)
EXTENDS Integers, Sequences, FiniteSets, TLC

\* fetch_with_retry's max_retries (5 in the source), bounded for the check.
MaxRetries == 3
\* BirjaScraper's max_concurrent is drawn from 1..MaxConcurrent.
MaxConcurrent == 2
\* scrape_listing saves the progress when len(scraped_ids) % 10 == 0.
SaveEvery == 10

VARIABLES
    site,           \* the site's content: a sequence of pages, each a sequence of cards
    absent,         \* the urls the site no longer has: every request gets a 404
    failing,        \* the urls whose every request fails transiently
    healthy,        \* the urls whose every request gets a 200
    max_concurrent, \* BirjaScraper.max_concurrent
    io_faults,      \* whether file operations of this behaviour may raise
    pc,             \* where the main task is
    page,           \* scrape_pages' page_num
    calls,          \* per task, its call of fetch_with_retry (0 is the main task)
    tasks,          \* the listing tasks of the current page
    semaphore,      \* the value of self.semaphore
    session,        \* self.session: "none", "open" or "closed"
    scraped_ids,    \* self.scraped_ids
    failed_urls,    \* self.failed_urls (the urls; the time stamps are left out)
    retry_list,     \* retry_failed's failed_urls still to be fetched
    output_file,    \* scraped_data.csv
    backup_file,    \* the JSON lines of the backup_*.json files
    progress_file,  \* scraper_progress.json
    failed_file,    \* failed_urls.json
    handed,         \* per identifier, how many records were passed to write_to_csv
    interrupted,    \* an interrupt has been delivered to this process
    restarted,      \* the process has been started a second time
    loaded,         \* the identifiers load_progress read when this process started
    page_fetches,   \* per page number, the calls of fetch_with_retry scrape_page made
    stage,          \* how far one detail page has gone: "idle", "page", "extracted", "cleaned"
    html,           \* the detail page handed to extract_detail_info
    basic_info,     \* the partial record handed to extract_detail_info
    full_data,      \* the record extract_detail_info returned
    cleaned         \* generate_charts' rooms_clean and area_clean of the record

vars == <<site, absent, failing, healthy, max_concurrent, io_faults, pc, page,
          calls, tasks, semaphore, session, scraped_ids, failed_urls, retry_list,
          output_file, backup_file, progress_file, failed_file, handed,
          interrupted, restarted, loaded, page_fetches, stage, html,
          basic_info, full_data, cleaned>>

-----------------------------------------------------------------------------
(* The site.  A card carries the number of its "Elan №" marker (0: the     *)
(* card has no marker) and whether its <h2> holds a link.                  *)

Card(id) == [elan_id |-> id, has_url |-> TRUE]
NoMarkerCard == [elan_id |-> 0, has_url |-> TRUE]
NoLinkCard(id) == [elan_id |-> id, has_url |-> FALSE]
NoCard == [elan_id |-> 0, has_url |-> FALSE]

\* A site that shows one listing twice on a page, one that shows a listing
\* again on the next page, and one with cards that are no listings.
RepeatOnPage == << <<Card(1), Card(1)>>, <<Card(2)>> >>
RepeatOnNextPage == << <<Card(1), Card(2)>>, <<Card(1), Card(3)>> >>
Irregular == << <<NoMarkerCard, NoLinkCard(3)>>, <<Card(2)>> >>
\* A site of one page that shows no listing twice.
OnePage == << <<Card(1), Card(2)>> >>
\* Two pages of listings that differ: two, then one.
TwoThenOne == << <<Card(1), Card(2)>>, <<Card(3)>> >>
\* Two pages: three listings, then one.
TwoPages == << <<Card(1), Card(2), Card(3)>>, <<Card(4)>> >>

Sites == {RepeatOnPage, RepeatOnNextPage, Irregular}

RECURSIVE MaxOf(_)
MaxOf(S) ==
    IF S = {} THEN 0
    ELSE LET x == CHOOSE y \in S : TRUE
             m == MaxOf(S \ {x})
         IN IF x > m THEN x ELSE m

MaxCards == MaxOf(UNION {{Len(s[p]) : p \in DOMAIN s} : s \in Sites \cup {OnePage, TwoThenOne, TwoPages}})
SiteIds == 1..4
TaskIds == 1..MaxCards
MainTask == 0

\* Identifiers of an earlier crawl of other pages: one more makes SaveEvery.
OldIds == {100 + i : i \in 1..(SaveEvery - 1)}

NoFile == [exists |-> FALSE, ids |-> {}]
InitialProgress == {NoFile, [exists |-> TRUE, ids |-> {1}], [exists |-> TRUE, ids |-> OldIds]}

NoUrl == [kind |-> "none", n |-> 0]
PageUrl(n) == [kind |-> "page", n |-> n]
DetailUrl(id) == [kind |-> "detail", n |-> id]

AbsentChoices == {{}, {PageUrl(2)}, {DetailUrl(1)}}

-----------------------------------------------------------------------------
(* Pure parts of the code.                                                 *)

load_progress(pf) == IF pf.exists THEN pf.ids ELSE {}

\* ok is FALSE when open() or json.dump raises: the error is logged, the
\* file stays as it was.
save_progress(ok, pf, ids) == IF ok THEN [exists |-> TRUE, ids |-> ids] ELSE pf

\* A save that adds the list to the document it finds.
save_failed_urlsAppend(ok, ff, urls) ==
    IF ok THEN [exists |-> TRUE, urls |-> ff.urls \o urls,
                count |-> ff.count + Len(urls)]
    ELSE ff

\* The document holds failed_urls and count, its length.
save_failed_urls(ok, ff, urls) ==
    IF ok THEN [exists |-> TRUE, urls |-> urls, count |-> Len(urls)] ELSE ff

\* extract_listing_info: None when the card has no "Elan №" marker or its
\* number is in scraped_ids, and otherwise the card's data, with or without
\* a url.
None == [elan_id |-> 0, has_url |-> FALSE, found |-> FALSE]

\* extract_listing_info without its "Skip if already scraped".
extract_listing_infoNoSkip(card, ids) ==
    IF card.elan_id = 0 THEN None
    ELSE [elan_id |-> card.elan_id, has_url |-> card.has_url, found |-> TRUE]

extract_listing_info(card, ids) ==
    IF card.elan_id = 0 THEN None
    ELSE IF card.elan_id \in ids THEN None
    ELSE [elan_id |-> card.elan_id, has_url |-> card.has_url, found |-> TRUE]

HeaderRow == 0

\* write_to_csv with a header before every row.
write_to_csvHeaderAlways(fault, of, bf, id) ==
    IF fault = "none"
    THEN [output |-> [exists |-> TRUE, rows |-> of.rows \o <<HeaderRow, id>>],
          backup |-> bf, raised |-> FALSE]
    ELSE IF fault = "primary"
    THEN [output |-> of, backup |-> Append(bf, id), raised |-> FALSE]
    ELSE [output |-> of, backup |-> bf, raised |-> TRUE]

\* fault: "none", "primary" (the append to the csv raises and the record
\* goes to a backup file) or "both" (the backup write raises too, and the
\* exception leaves write_to_csv).
write_to_csv(fault, of, bf, id) ==
    IF fault = "none"
    THEN [output |-> [exists |-> TRUE,
                      rows |-> IF of.exists THEN Append(of.rows, id)
                               ELSE <<HeaderRow, id>>],
          backup |-> bf, raised |-> FALSE]
    ELSE IF fault = "primary"
    THEN [output |-> of, backup |-> Append(bf, id), raised |-> FALSE]
    ELSE [output |-> of, backup |-> bf, raised |-> TRUE]

\* An add that is left for later.
MarkScrapedLater(raised, ids, id) == ids

\* An add that does not depend on the write.
MarkScrapedAlways(raised, ids, id) == ids \cup {id}

\* self.scraped_ids.add(elan_id) follows write_to_csv: an exception that
\* leaves write_to_csv skips it.
MarkScraped(raised, ids, id) == IF raised THEN ids ELSE ids \cup {id}

\* A save after every record.
SaveDueAlways(ids) == TRUE

\* if len(self.scraped_ids) % 10 == 0
SaveDue(ids) == Cardinality(ids) % SaveEvery = 0

\* A listing task that goes on without a detail page.
GotBodyAlways(c) == TRUE

\* "if not detail_html" is false: fetch_with_retry returned a body.
GotBody(c) == c.ret = "body"

\* A page whose cards are scraped whatever its fetch returned.
PageHasListingsAlways(c, cards) == cards # <<>>

\* "if not html: return" is passed and find_all found cards.
PageHasListings(c, cards) == c.ret = "body" /\ cards # <<>>

WriteFaults == IF io_faults THEN {"none", "primary", "both"} ELSE {"none"}
SaveOks == IF io_faults THEN {TRUE, FALSE} ELSE {TRUE}

-----------------------------------------------------------------------------
(* A call of fetch_with_retry.  attempt is the loop variable, tries the    *)
(* number of requests issued, waits the sleep that followed each failed    *)
(* attempt (0 when the code does not sleep), ret what the call returned.   *)

NoCall == [pc |-> "none", url |-> NoUrl, attempt |-> 0, tries |-> 0,
           waits |-> <<>>, ret |-> "pending"]

NewCall(url) == [pc |-> "start", url |-> url, attempt |-> 0, tries |-> 0,
                 waits |-> <<>>, ret |-> "pending"]

NoTask == [pc |-> "none", card |-> NoCard, outcome |-> "none", page |-> 0]

\* A listing task whose failure cancels the tasks gathered with it.
TaskEndsCancelling(ts, t, outcome) ==
    [u \in DOMAIN ts |->
        IF u = t THEN [ts[u] EXCEPT !.pc = "done", !.outcome = outcome]
        ELSE IF outcome \in {"fetch_empty", "error"} /\ ts[u].pc \in {"new", "fetch"}
        THEN [ts[u] EXCEPT !.pc = "done", !.outcome = "cancelled"]
        ELSE ts[u]]

\* scrape_listing returns, or its "except Exception" has logged the error:
\* the task is done and the other tasks are as they were.
TaskEnds(ts, t, outcome) == [ts EXCEPT ![t].pc = "done", ![t].outcome = outcome]

\* The tasks that wait for the semaphore, and those whose request is out
Waiting == {t \in DOMAIN calls : calls[t].pc = "acquire"}
InFlight == {t \in DOMAIN calls : calls[t].pc = "inflight"}

\* A semaphore whose acquire never waits.
CanAcquireUnbounded(sem) == TRUE

\* async with self.semaphore: the permit is taken when the value is positive
CanAcquire(sem) == sem > 0

\* The call reaches "async with self.semaphore": it takes a permit and
\* issues the request at once when one is free and nobody waits, and
\* otherwise waits.
Enter(c, sem, waiting) ==
    IF CanAcquire(sem) /\ waiting = {}
    THEN [c EXCEPT !.pc = "inflight", !.tries = @ + 1]
    ELSE [c EXCEPT !.pc = "acquire"]

SemAfter(c, sem) == IF c.pc = "inflight" THEN sem - 1 ELSE sem

Alive == pc \in {"fetch_page", "gather", "page_delay", "retry"}
AllStarted == \A t \in TaskIds : tasks[t].pc # "new"

-----------------------------------------------------------------------------
(* Texts, detail pages and records.  A text is a sequence of tokens: a     *)
(* digit, a separator, a blank, or a whole word.  The labels of the site   *)
(* are written in ASCII here: "Otaq sayi" is the site's "Otaq sayı",       *)
(* "Sahesi (m2)" its "Sahəsi (m²)", and so on.                             *)

\* The longest value of a table cell that is followed through the cleaning
MaxLen == 4
\* The most rows of a detail page's table
MaxRows == 2

Digits == {"0", "1", "2", "9"}
Blank == " "
Alphabet == Digits \cup {",", ".", Blank, "Studio"}

DigitValue(ch) ==
    CASE ch = "0" -> 0 [] ch = "1" -> 1 [] ch = "2" -> 2 [] ch = "9" -> 9

Texts(n) == UNION {[1..k -> Alphabet] : k \in 0..n}

RECURSIVE lstrip(_)
lstrip(t) == IF t # <<>> /\ Head(t) = Blank THEN lstrip(Tail(t)) ELSE t

RECURSIVE rstrip(_)
rstrip(t) ==
    IF t # <<>> /\ t[Len(t)] = Blank THEN rstrip(SubSeq(t, 1, Len(t) - 1)) ELSE t

\* str.strip()
strip(t) == rstrip(lstrip(t))

\* The mapped labels of the attribute table and the field each one fills
FieldLabelsSwapped ==
    [region |-> "Seher/erazi", elan_type |-> "Elan novu",
     property_type |-> "Emlak novu", rental_period |-> "Kiraye muddeti",
     room_count |-> "Mertebe", floor |-> "Otaq sayi",
     total_floors |-> "Mertebeli bina", area_sqm |-> "Sahesi (m2)",
     repair_status |-> "Temiri", land_area_sot |-> "Umumi-sahe (sot)",
     house_area_sqm |-> "Evin-sahesi (m2)"]

FieldLabels ==
    [region |-> "Seher/erazi", elan_type |-> "Elan novu",
     property_type |-> "Emlak novu", rental_period |-> "Kiraye muddeti",
     room_count |-> "Otaq sayi", floor |-> "Mertebe",
     total_floors |-> "Mertebeli bina", area_sqm |-> "Sahesi (m2)",
     repair_status |-> "Temiri", land_area_sot |-> "Umumi-sahe (sot)",
     house_area_sqm |-> "Evin-sahesi (m2)"]

MappedFields == DOMAIN FieldLabels
Labels == {FieldLabels[f] : f \in MappedFields}

\* A dict as the sequence of its items, in insertion order
RECURSIVE DictSet(_, _, _)
\* d[k] = v
DictSet(d, k, v) ==
    IF d = <<>> THEN << <<k, v>> >>
    ELSE IF Head(d)[1] = k THEN << <<k, v>> >> \o Tail(d)
    ELSE <<Head(d)>> \o DictSet(Tail(d), k, v)

RECURSIVE DictGet(_, _, _)
\* d.get(k, default)
DictGet(d, k, default) ==
    IF d = <<>> THEN default
    ELSE IF Head(d)[1] = k THEN Head(d)[2]
    ELSE DictGet(Tail(d), k, default)

RECURSIVE Properties(_, _)
\* The loop over the rows of the page: a row of two cells whose stripped
\* texts are both non-empty sets properties[key] = value.
Properties(rows, properties) ==
    IF rows = <<>> THEN properties
    ELSE LET cells == Head(rows)
             key == strip(cells[1])
             value == strip(cells[2])
         IN Properties(Tail(rows),
                       IF Len(cells) = 2 /\ key # <<>> /\ value # <<>>
                       THEN DictSet(properties, key, value)
                       ELSE properties)

RECURSIVE Items(_)
Items(d) ==
    IF d = <<>> THEN <<>>
    ELSE Head(d)[1] \o <<":">> \o Head(d)[2] \o <<";">> \o Items(Tail(d))

\* json.dumps of a dict, as a text: the items between braces
json_dumps(d) == <<"{">> \o Items(d) \o <<"}">>

\* datetime.now().isoformat()
Now == <<"now">>

NoElement == [present |-> FALSE, text |-> <<>>]
Element(t) == [present |-> TRUE, text |-> t]

NoPage == [rows |-> <<>>, description |-> NoElement]
NoRecord == [f \in {} |-> <<>>]

\* extract_detail_info: the description when the page has the element, the
\* mapped properties, no image, all the properties, and the time.
extract_detail_info(soup, basic) ==
    LET properties == Properties(soup.rows, <<>>)
        described == IF soup.description.present
                     THEN [f \in {"description"} |-> strip(soup.description.text)]
                     ELSE NoRecord
        mapped == [f \in MappedFields |-> DictGet(properties, <<FieldLabels[f]>>, <<>>)]
        rest == [f \in {"images", "all_properties", "scraped_at"} |->
                    IF f = "images" THEN <<>>
                    ELSE IF f = "all_properties" THEN json_dumps(properties)
                    ELSE Now]
    IN rest @@ mapped @@ described @@ basic

\* generate_charts.py.  A number, or None
Nothing == [some |-> FALSE, num |-> 0, den |-> 1]
Number(num, den) == [some |-> TRUE, num |-> num, den |-> den]
NotCleaned == [rooms_clean |-> Nothing, area_clean |-> Nothing]

RECURSIVE int(_)
\* int() of a run of digits
int(run) ==
    IF run = <<>> THEN 0 ELSE 10 * int(SubSeq(run, 1, Len(run) - 1)) + DigitValue(run[Len(run)])

RECURSIVE DigitRun(_)
\* \d* at the head of a text
DigitRun(t) ==
    IF t # <<>> /\ Head(t) \in Digits THEN <<Head(t)>> \o DigitRun(Tail(t)) ELSE <<>>

RECURSIVE FromFirstDigit(_)
\* The text from its first digit on: where re.search(r'\d+') matches
FromFirstDigit(t) ==
    IF t = <<>> \/ Head(t) \in Digits THEN t ELSE FromFirstDigit(Tail(t))

\* pd.read_csv: an empty cell is NaN, and pd.isna is true of it
isna(cell) == cell = <<>>

\* extract_rooms with no outlier filter
extract_roomsUnfiltered(room_str) ==
    IF isna(room_str) THEN Nothing
    ELSE IF \E i \in DOMAIN room_str : room_str[i] \in {"Studio", "studio"}
    THEN Number(0, 1)
    ELSE LET m == DigitRun(FromFirstDigit(room_str)) IN
         IF m # <<>> THEN Number(int(m), 1) ELSE Nothing

extract_rooms(room_str) ==
    IF isna(room_str) THEN Nothing
    ELSE IF \E i \in DOMAIN room_str : room_str[i] \in {"Studio", "studio"}
    THEN Number(0, 1)
    ELSE LET m == DigitRun(FromFirstDigit(room_str)) IN
         IF m # <<>>
         THEN (IF int(m) < 20 THEN Number(int(m), 1) ELSE Nothing)
         ELSE Nothing

\* str.replace(',', '.')
replace_comma(t) == [i \in DOMAIN t |-> IF t[i] = "," THEN "." ELSE t[i]]

\* clean_area: the first match of (\d+\.?\d*) as a float num / den, kept
\* when 10 < area < 1000.
clean_area(area_str) ==
    IF isna(area_str) THEN Nothing
    ELSE LET s == FromFirstDigit(replace_comma(area_str))
             whole == DigitRun(s)
             after == SubSeq(s, Len(whole) + 1, Len(s))
             frac == IF after # <<>> /\ Head(after) = "." THEN DigitRun(Tail(after))
                     ELSE <<>>
             num == int(whole \o frac)
             den == 10 ^ Len(frac)
         IN IF whole # <<>>
            THEN (IF 10 * den < num /\ num < 1000 * den THEN Number(num, den)
                  ELSE Nothing)
            ELSE Nothing

\* df['rooms_clean'] and df['area_clean'] of the row of a record
clean_data(data) ==
    [rooms_clean |-> extract_rooms(data["room_count"]),
     area_clean |-> clean_area(data["area_sqm"])]

-----------------------------------------------------------------------------
(* The state after BirjaScraper() and the start of scrape_pages: the       *)
(* progress is loaded, the session is open and the main task has issued    *)
(* the request of the first page.                                          *)

FirstCall(cap) == Enter(NewCall(PageUrl(1)), cap, {})

StartProcess(pf) ==
    /\ pc' = "fetch_page"
    /\ page' = 1
    /\ calls' = [t \in {MainTask} \cup TaskIds |->
                    IF t = MainTask THEN FirstCall(max_concurrent) ELSE NoCall]
    /\ tasks' = [t \in TaskIds |-> NoTask]
    /\ semaphore' = SemAfter(FirstCall(max_concurrent), max_concurrent)
    /\ session' = "open"
    /\ scraped_ids' = load_progress(pf)
    /\ loaded' = load_progress(pf)
    /\ page_fetches' = [n \in DOMAIN site |-> IF n = 1 THEN 1 ELSE 0]
    /\ failed_urls' = <<>>
    /\ retry_list' = <<>>
    /\ interrupted' = FALSE

\* sites, gone, bad, good and progress are the choices of the site, of its
\* absent, failing and healthy urls, and of the progress file the run finds.
InitCrawl(faults, sites, gone, bad, good, progress) ==
    /\ site \in sites
    /\ absent \in gone
    /\ failing \in bad
    /\ healthy \in good
    /\ max_concurrent \in 1..MaxConcurrent
    /\ io_faults = faults
    /\ progress_file \in progress
    /\ pc = "fetch_page"
    /\ page = 1
    /\ calls = [t \in {MainTask} \cup TaskIds |->
                    IF t = MainTask THEN FirstCall(max_concurrent) ELSE NoCall]
    /\ tasks = [t \in TaskIds |-> NoTask]
    /\ semaphore = SemAfter(FirstCall(max_concurrent), max_concurrent)
    /\ session = "open"
    /\ scraped_ids = load_progress(progress_file)
    /\ loaded = load_progress(progress_file)
    /\ page_fetches = [n \in DOMAIN site |-> IF n = 1 THEN 1 ELSE 0]
    /\ failed_urls = <<>>
    /\ retry_list = <<>>
    /\ output_file = [exists |-> FALSE, rows |-> <<>>]
    /\ backup_file = <<>>
    /\ failed_file = [exists |-> FALSE, urls |-> <<>>, count |-> 0]
    /\ handed = [i \in SiteIds |-> 0]
    /\ interrupted = FALSE
    /\ restarted = FALSE

\* A crawl: no detail page is followed through its extraction.
InitFrom(faults, sites, gone, bad, good, progress) ==
    /\ InitCrawl(faults, sites, gone, bad, good, progress)
    /\ stage = "idle"
    /\ html = NoPage
    /\ basic_info = NoRecord
    /\ full_data = NoRecord
    /\ cleaned = NotCleaned

InitWith(faults, sites, gone) ==
    InitFrom(faults, sites, gone, {{}}, {{}}, InitialProgress)

Init == InitWith(FALSE, Sites, AbsentChoices)

-----------------------------------------------------------------------------
(* What follows the return of fetch_with_retry in its three callers.  c is *)
(* the returned call, sem the semaphore's value and fails the failed_urls  *)
(* at the return.                                                          *)

\* scrape_listing after "detail_html = await self.fetch_with_retry(...)"
scrape_listing_rest(t, c, sem, fails) ==
    LET id == tasks[t].card.elan_id IN
    /\ calls' = [calls EXCEPT ![t] = c]
    /\ semaphore' = sem
    /\ failed_urls' = fails
    /\ IF GotBody(c)
       THEN \E fault \in WriteFaults, ok \in SaveOks :
              LET w == write_to_csv(fault, output_file, backup_file, id)
                  ids == MarkScraped(w.raised, scraped_ids, id)
              IN /\ handed' = [handed EXCEPT ![id] = @ + 1]
                 /\ output_file' = w.output
                 /\ backup_file' = w.backup
                 /\ scraped_ids' = ids
                 /\ IF w.raised
                    THEN /\ tasks' = TaskEnds(tasks, t, "error")
                         /\ UNCHANGED progress_file
                    ELSE /\ tasks' = TaskEnds(tasks, t, "committed")
                         /\ progress_file' =
                               IF SaveDue(ids)
                               THEN save_progress(ok, progress_file, ids)
                               ELSE progress_file
       ELSE /\ tasks' = TaskEnds(tasks, t, "fetch_empty")
            /\ UNCHANGED <<handed, output_file, backup_file, scraped_ids, progress_file>>
    /\ UNCHANGED <<stage, html, basic_info, full_data, cleaned,
                   site, absent, failing, healthy, loaded, page_fetches,
                   max_concurrent, io_faults, pc, page, session, retry_list,
                   failed_file, interrupted, restarted>>

\* scrape_page after "html = await self.fetch_with_retry(url)": the tasks of
\* the page's cards are created and gathered.
scrape_page_rest(c, sem, fails) ==
    LET cards == site[page] IN
    /\ calls' = [t \in {MainTask} \cup TaskIds |->
                    IF t = MainTask /\ c.ret # "body" THEN c ELSE NoCall]
    /\ semaphore' = sem
    /\ failed_urls' = fails
    /\ IF PageHasListings(c, cards)
       THEN /\ pc' = "gather"
            /\ tasks' = [t \in TaskIds |->
                           IF t <= Len(cards)
                           THEN [pc |-> "new", card |-> cards[t],
                                 outcome |-> "none", page |-> page]
                           ELSE NoTask]
       ELSE /\ pc' = "page_delay"
            /\ tasks' = [t \in TaskIds |-> NoTask]
    /\ UNCHANGED <<stage, html, basic_info, full_data, cleaned,
                   site, absent, failing, healthy, loaded, page_fetches,
                   max_concurrent, io_faults, page, session, scraped_ids,
                   retry_list, output_file, backup_file, progress_file, failed_file,
                   handed, interrupted, restarted>>

\* retry_failed after "html = await self.fetch_with_retry(url)": the body is
\* dropped; after the last url the list is saved and the session closed.
retry_failed_rest(c, sem, fails) ==
    /\ failed_urls' = fails
    /\ IF retry_list # <<>>
       THEN LET n == Enter(NewCall(Head(retry_list)), sem, Waiting) IN
            /\ calls' = [calls EXCEPT ![MainTask] = n]
            /\ semaphore' = SemAfter(n, sem)
            /\ retry_list' = Tail(retry_list)
            /\ UNCHANGED <<pc, session, failed_file>>
       ELSE /\ calls' = [calls EXCEPT ![MainTask] = c]
            /\ semaphore' = sem
            /\ \E ok \in SaveOks : failed_file' = save_failed_urls(ok, failed_file, fails)
            /\ session' = "closed"
            /\ pc' = "done"
            /\ UNCHANGED retry_list
    /\ UNCHANGED <<stage, html, basic_info, full_data, cleaned,
                   site, absent, failing, healthy, loaded, page_fetches,
                   max_concurrent, io_faults, page, tasks, scraped_ids,
                   output_file, backup_file, progress_file, handed, interrupted,
                   restarted>>

Return(t, c, sem, fails) ==
    IF t # MainTask THEN scrape_listing_rest(t, c, sem, fails)
    ELSE IF pc = "fetch_page" THEN scrape_page_rest(c, sem, fails)
    ELSE retry_failed_rest(c, sem, fails)

-----------------------------------------------------------------------------
(* fetch_with_retry *)

\* The loop goes on to its next attempt, or ends: "All retries failed".
NextAttempt(t, c, sem) ==
    IF c.attempt + 1 < MaxRetries
    THEN LET n == Enter([c EXCEPT !.attempt = @ + 1], sem, Waiting) IN
         /\ calls' = [calls EXCEPT ![t] = n]
         /\ semaphore' = SemAfter(n, sem)
         /\ UNCHANGED <<stage, html, basic_info, full_data, cleaned,
                   site, absent, failing, healthy, loaded, page_fetches,
                   max_concurrent, io_faults, pc, page, tasks, session,
                        scraped_ids, failed_urls, retry_list, output_file,
                        backup_file, progress_file, failed_file, handed,
                        interrupted, restarted>>
    ELSE Return(t, [c EXCEPT !.pc = "returned", !.ret = "exhausted"], sem,
                Append(failed_urls, c.url))

Statuses == {"200", "404", "other"}
Exceptions == {"TimeoutError", "ClientError", "Exception"}

\* What the site may answer to a request of url.
Responses(url) ==
    IF url \in absent THEN {"404"}
    ELSE IF url \in failing THEN {"other"} \cup Exceptions
    ELSE IF url \in healthy THEN {"200"}
    ELSE Statuses \cup Exceptions

\* A permit that an exception does not give back.
ReleaseOnResponse(sem, r) == IF r \in Exceptions THEN sem ELSE sem + 1

\* The request ends inside "async with self.semaphore": a return, the end
\* of the block and an exception all leave it, and give the permit back.
Release(sem, r) == sem + 1

\* Except clauses inside "async with": the permit is kept over the sleep.
ReleasedAfterSleep == FALSE

\* The except clauses that sleep belong to the try that encloses
\* "async with self.semaphore": the permit is back before the sleep.
ReleasedBeforeSleep == TRUE

\* A loop body where a 404 is a status like any other.
Classify404Retried(r) ==
    IF r = "200" THEN "body"
    ELSE IF r \in {"404", "other"} THEN "retry"
    ELSE "backoff"

\* The branch of the loop body a response takes: return the body, return
\* None, fall through to the next attempt, or sleep in an except clause.
Classify(r) ==
    IF r = "200" THEN "body"
    ELSE IF r = "404" THEN "notfound"
    ELSE IF r = "other" THEN "retry"
    ELSE "backoff"

\* The request of task t ends: with a response, or with an exception raised
\* inside "async with"; both leave the block and release the permit.
Respond(t) ==
    /\ Alive
    /\ AllStarted
    /\ calls[t].pc = "inflight"
    /\ \E r \in Responses(calls[t].url) :
         LET c == calls[t]
             sem == Release(semaphore, r)
             branch == Classify(r)
         IN IF branch = "body"
            THEN Return(t, [c EXCEPT !.pc = "returned", !.ret = "body"], sem, failed_urls)
            ELSE IF branch = "notfound"
            THEN Return(t, [c EXCEPT !.pc = "returned", !.ret = "notfound"], sem,
                        failed_urls)
            ELSE IF branch = "retry"
            THEN NextAttempt(t, [c EXCEPT !.waits = Append(@, 0)], sem)
            ELSE /\ calls' = [calls EXCEPT ![t] =
                                 [c EXCEPT !.pc = "sleep",
                                           !.waits = Append(@, 2 ^ c.attempt)]]
                 /\ semaphore' = IF ReleasedBeforeSleep THEN sem ELSE semaphore
                 /\ UNCHANGED <<stage, html, basic_info, full_data, cleaned,
                   site, absent, failing, healthy, loaded, page_fetches,
                   max_concurrent, io_faults, pc, page, tasks,
                                session, scraped_ids, failed_urls, retry_list,
                                output_file, backup_file, progress_file, failed_file,
                                handed, interrupted, restarted>>

\* asyncio.sleep(wait_time) in an except clause is over.
WakeUp(t) ==
    /\ Alive
    /\ AllStarted
    /\ calls[t].pc = "sleep"
    /\ NextAttempt(t, calls[t], IF ReleasedBeforeSleep THEN semaphore ELSE semaphore + 1)

\* A task that waited for the semaphore gets a permit and issues its request.
Acquire(t) ==
    /\ Alive
    /\ AllStarted
    /\ calls[t].pc = "acquire"
    /\ CanAcquire(semaphore)
    /\ calls' = [calls EXCEPT ![t].pc = "inflight", ![t].tries = @ + 1]
    /\ semaphore' = semaphore - 1
    /\ UNCHANGED <<stage, html, basic_info, full_data, cleaned,
                   site, absent, failing, healthy, loaded, page_fetches,
                   max_concurrent, io_faults, pc, page, tasks, session,
                   scraped_ids, failed_urls, retry_list, output_file, backup_file,
                   progress_file, failed_file, handed, interrupted, restarted>>

-----------------------------------------------------------------------------
(* scrape_listing, scrape_page, scrape_pages, retry_failed, main *)

\* The first step of a listing task, up to its first suspension.  The tasks
\* gather created start in the order of the cards.
ListingStart(t) ==
    /\ pc = "gather"
    /\ tasks[t].pc = "new"
    /\ \A u \in TaskIds : u < t => tasks[u].pc # "new"
    /\ LET info == extract_listing_info(tasks[t].card, scraped_ids) IN
       IF ~info.found \/ ~info.has_url
       THEN /\ tasks' = TaskEnds(tasks, t, IF info.found THEN "no_url" ELSE "no_info")
            /\ UNCHANGED <<calls, semaphore>>
       ELSE LET n == Enter(NewCall(DetailUrl(info.elan_id)), semaphore, Waiting) IN
            /\ tasks' = [tasks EXCEPT ![t].pc = "fetch"]
            /\ calls' = [calls EXCEPT ![t] = n]
            /\ semaphore' = SemAfter(n, semaphore)
    /\ UNCHANGED <<stage, html, basic_info, full_data, cleaned,
                   site, absent, failing, healthy, loaded, page_fetches,
                   max_concurrent, io_faults, pc, page, session, scraped_ids,
                   failed_urls, retry_list, output_file, backup_file, progress_file,
                   failed_file, handed, interrupted, restarted>>

\* A wait that never ends.
AllGatheredNever == FALSE

\* A wait that ends with the first task that is done.
AllGatheredAny == \E t \in TaskIds : tasks[t].pc = "done"

\* asyncio.gather(*tasks) is done when every task is
AllGathered == \A t \in TaskIds : tasks[t].pc \in {"none", "done"}

\* scrape_page returns and scrape_pages sleeps before the next page.
PageGathered ==
    /\ pc = "gather"
    /\ AllGathered
    /\ pc' = "page_delay"
    /\ calls' = [t \in DOMAIN calls |-> NoCall]
    /\ UNCHANGED <<stage, html, basic_info, full_data, cleaned,
                   site, absent, failing, healthy, loaded, page_fetches,
                   max_concurrent, io_faults, page, tasks, semaphore,
                   session, scraped_ids, failed_urls, retry_list, output_file,
                   backup_file, progress_file, failed_file, handed, interrupted,
                   restarted>>

\* asyncio.sleep(1) is over and the range has another page.
NextPage ==
    /\ pc = "page_delay"
    /\ page < Len(site)
    /\ LET n == Enter(NewCall(PageUrl(page + 1)), semaphore, Waiting) IN
       /\ calls' = [calls EXCEPT ![MainTask] = n]
       /\ semaphore' = SemAfter(n, semaphore)
    /\ page' = page + 1
    /\ page_fetches' = [page_fetches EXCEPT ![page + 1] = @ + 1]
    /\ pc' = "fetch_page"
    /\ UNCHANGED <<stage, html, basic_info, full_data, cleaned,
                   site, absent, failing, healthy, loaded,
                   max_concurrent, io_faults, tasks, session, scraped_ids,
                   failed_urls, retry_list, output_file, backup_file, progress_file,
                   failed_file, handed, interrupted, restarted>>

\* asyncio.sleep(1) is over after the last page: the finally clause of
\* scrape_pages, then main's "if scraper.failed_urls" and retry_failed up to
\* its first request.
FinishPages ==
    /\ pc = "page_delay"
    /\ page = Len(site)
    /\ \E ok1 \in SaveOks, ok2 \in SaveOks :
         LET ff == save_failed_urls(ok2, failed_file, failed_urls) IN
         /\ progress_file' = save_progress(ok1, progress_file, scraped_ids)
         /\ failed_file' = ff
         /\ IF failed_urls # <<>> /\ ff.exists /\ ff.urls # <<>>
            THEN LET n == Enter(NewCall(Head(ff.urls)), semaphore, Waiting) IN
                 /\ pc' = "retry"
                 /\ session' = "open"
                 /\ failed_urls' = <<>>
                 /\ retry_list' = Tail(ff.urls)
                 /\ calls' = [calls EXCEPT ![MainTask] = n]
                 /\ semaphore' = SemAfter(n, semaphore)
            ELSE /\ pc' = "done"
                 /\ session' = "closed"
                 /\ UNCHANGED <<failed_urls, retry_list, calls, semaphore>>
    /\ UNCHANGED <<stage, html, basic_info, full_data, cleaned,
                   site, absent, failing, healthy, loaded, page_fetches,
                   max_concurrent, io_faults, page, tasks, scraped_ids,
                   output_file, backup_file, handed, interrupted, restarted>>

\* An interrupt (SIGINT) reaches the process.  delivery is how the build
\* hands it to the main task: as a CancelledError thrown at its await
\* (asyncio.run cancels the main task), or as a KeyboardInterrupt raised
\* in its frames.  Cancelling the main task cancels the gathered listing
\* tasks; a cancelled request leaves "async with" and releases its permit.
\* Inside scrape_pages the finally clause saves both files; inside
\* retry_failed only main's "except KeyboardInterrupt" does.
Interrupt ==
    /\ Alive
    /\ \E delivery \in {"CancelledError", "KeyboardInterrupt"}, ok1 \in SaveOks,
          ok2 \in SaveOks :
         IF pc # "retry" \/ delivery = "KeyboardInterrupt"
         THEN /\ progress_file' = save_progress(ok1, progress_file, scraped_ids)
              /\ failed_file' = save_failed_urls(ok2, failed_file, failed_urls)
         ELSE UNCHANGED <<progress_file, failed_file>>
    /\ calls' = [t \in DOMAIN calls |-> NoCall]
    /\ semaphore' = semaphore + Cardinality(InFlight)
    /\ tasks' = [t \in TaskIds |->
                    IF tasks[t].pc \in {"new", "fetch"}
                    THEN [tasks[t] EXCEPT !.pc = "done", !.outcome = "cancelled"]
                    ELSE tasks[t]]
    /\ session' = "closed"
    /\ pc' = "exited"
    /\ interrupted' = TRUE
    /\ UNCHANGED <<stage, html, basic_info, full_data, cleaned,
                   site, absent, failing, healthy, loaded, page_fetches,
                   max_concurrent, io_faults, page, scraped_ids, failed_urls,
                   retry_list, output_file, backup_file, handed, restarted>>

\* The process is killed: no handler runs, the memory is gone, the files stay.
Kill ==
    /\ Alive
    /\ pc' = "killed"
    /\ calls' = [t \in DOMAIN calls |-> NoCall]
    /\ tasks' = [t \in TaskIds |-> NoTask]
    /\ semaphore' = max_concurrent
    /\ session' = "none"
    /\ scraped_ids' = {}
    /\ failed_urls' = <<>>
    /\ retry_list' = <<>>
    /\ page' = 1
    /\ loaded' = {}
    /\ page_fetches' = [n \in DOMAIN site |-> 0]
    /\ UNCHANGED <<stage, html, basic_info, full_data, cleaned,
                   site, absent, failing, healthy,
                   max_concurrent, io_faults, output_file, backup_file,
                   progress_file, failed_file, handed, interrupted, restarted>>

\* The program is started again on the same files and the same site.
Restart ==
    /\ pc \in {"killed", "exited", "done"}
    /\ ~restarted
    /\ restarted' = TRUE
    /\ StartProcess(progress_file)
    /\ UNCHANGED <<stage, html, basic_info, full_data, cleaned,
                   site, absent, failing, healthy,
                   max_concurrent, io_faults, output_file, backup_file,
                   progress_file, failed_file, handed>>

Next ==
    \/ \E t \in {MainTask} \cup TaskIds : Respond(t)
    \/ \E t \in {MainTask} \cup TaskIds : WakeUp(t)
    \/ \E t \in {MainTask} \cup TaskIds : Acquire(t)
    \/ \E t \in TaskIds : ListingStart(t)
    \/ PageGathered
    \/ NextPage
    \/ FinishPages
    \/ Interrupt

\* One run of the program, with files that never fail.
Spec == Init /\ [][Next]_vars

\* The steps of a run that no interrupt reaches
NextRun ==
    \/ \E t \in {MainTask} \cup TaskIds : Respond(t)
    \/ \E t \in {MainTask} \cup TaskIds : WakeUp(t)
    \/ \E t \in {MainTask} \cup TaskIds : Acquire(t)
    \/ \E t \in TaskIds : ListingStart(t)
    \/ PageGathered
    \/ NextPage
    \/ FinishPages

\* The event loop runs every task that is ready; a request ends, with a
\* response or with the session's timeout; a sleep ends; a free permit goes
\* to a task that waits for it.
Fairness ==
    /\ \A t \in {MainTask} \cup TaskIds :
          WF_vars(Respond(t)) /\ WF_vars(WakeUp(t)) /\ WF_vars(Acquire(t))
    /\ \A t \in TaskIds : WF_vars(ListingStart(t))
    /\ WF_vars(PageGathered)
    /\ WF_vars(NextPage)
    /\ WF_vars(FinishPages)

InitLive == InitWith(FALSE, {TwoThenOne, Irregular}, AbsentChoices)

\* One run that no interrupt reaches, under a fair event loop.
SpecLive == InitLive /\ [][NextRun]_vars /\ Fairness

NextCrash == Next \/ Kill \/ Restart

InitCrash == InitWith(FALSE, {OnePage, Irregular}, {{}})

\* The program run on a site whose pages show no listing twice, killed or
\* ended, and run once more.
SpecCrash == InitCrash /\ [][NextCrash]_vars

InitIO == InitWith(TRUE, Sites, AbsentChoices)

\* One run of the program, where every file operation may raise.
SpecIO == InitIO /\ [][Next]_vars

InitFaulty == InitWith(TRUE, {TwoThenOne, Irregular}, {{}})

\* One run on a site whose pages show no listing twice, where every file
\* operation may raise.
SpecFaulty == InitFaulty /\ [][Next]_vars

\* A crawl of two pages.  The first shows three listings, one of them in the
\* progress file; their pages are served.  The second shows one listing,
\* whose detail page fails at every request.
InitScenario ==
    InitFrom(FALSE, {TwoPages}, {{}}, {{DetailUrl(4)}},
             {{PageUrl(1), PageUrl(2), DetailUrl(1), DetailUrl(2), DetailUrl(3)}},
             {[exists |-> TRUE, ids |-> {i}] : i \in 1..3})

SpecScenario == InitScenario /\ [][Next]_vars

-----------------------------------------------------------------------------
(* One detail page followed from extract_detail_info to the cleaning of   *)
(* generate_charts.py.                                                     *)

crawl_vars == <<site, absent, failing, healthy, max_concurrent, io_faults, pc, page,
                calls, tasks, semaphore, session, scraped_ids, failed_urls,
                retry_list, output_file, backup_file, progress_file, failed_file,
                handed, interrupted, restarted, loaded, page_fetches>>

\* The texts of the cells of a table: values with and without blanks; keys
\* that are a mapped label, the label padded, another label, an empty cell.
CellValues == {<<"3">>, <<Blank, "5", Blank>>, <<>>}
KeyCells == {<<"Otaq sayi">>, <<Blank, "Otaq sayi", Blank>>, <<"Other">>, <<>>}
\* Rows of two cells: every mapped label with a value, and the keys above
\* with each value; and a row of one cell and one of three.
TableRows ==
    {<< <<l>>, <<"3">> >> : l \in Labels}
        \cup {<<k, v>> : k \in KeyCells, v \in CellValues}
        \cup {<< <<"Otaq sayi">> >>, << <<"Otaq sayi">>, <<"3">>, <<"5">> >>}

\* Pages with a table of up to MaxRows rows, with or without a description
TablePages ==
    {[rows |-> r, description |-> d] :
        r \in UNION {[1..k -> TableRows] : k \in 0..MaxRows},
        d \in {NoElement, Element(<<Blank, "text">>)}}

\* Pages whose table has one row, a room count or an area of any text
ValuePages ==
    {[rows |-> << << <<l>>, v >> >>, description |-> NoElement] :
        l \in {FieldLabels.room_count, FieldLabels.area_sqm}, v \in Texts(MaxLen)}

\* The page with the one row "Otaq sayi": "3"
MinimalPage ==
    [rows |-> << << <<"Otaq sayi">>, <<"3">> >> >>, description |-> NoElement]

\* A partial record with the identifier only
OnlyId == [f \in {"elan_id"} |-> <<"1">>]

InitExtract ==
    /\ InitCrawl(FALSE, {OnePage}, {{}}, {{}}, {{}}, {NoFile})
    /\ max_concurrent = 1
    /\ stage = "page"
    /\ html \in TablePages \cup ValuePages
    /\ basic_info = OnlyId
    /\ full_data = NoRecord
    /\ cleaned = NotCleaned

\* full_data = self.extract_detail_info(detail_html, basic_info)
ExtractDetail ==
    /\ stage = "page"
    /\ full_data' = extract_detail_info(html, basic_info)
    /\ stage' = "extracted"
    /\ UNCHANGED <<html, basic_info, cleaned, crawl_vars>>

\* df['rooms_clean'] = ..., df['area_clean'] = ... on the record's row
CleanData ==
    /\ stage = "extracted"
    /\ cleaned' = clean_data(full_data)
    /\ stage' = "cleaned"
    /\ UNCHANGED <<html, basic_info, full_data, crawl_vars>>

NextExtract == ExtractDetail \/ CleanData

SpecExtract == InitExtract /\ [][NextExtract]_vars

-----------------------------------------------------------------------------
(* Properties *)

Fetching == {t \in TaskIds : tasks[t].pc = "fetch"}

RECURSIVE Count(_, _)
\* How many times x occurs in the sequence q
Count(q, x) ==
    IF q = <<>> THEN 0
    ELSE (IF Head(q) = x THEN 1 ELSE 0) + Count(Tail(q), x)

NonDecreasing(q) == \A i \in 1..(Len(q) - 1) : q[i] <= q[i + 1]

\* The sleeps between consecutive attempts of a call that has ended: the
\* one that follows the last attempt is not between two attempts.
InterAttemptDelays(c) == SubSeq(c.waits, 1, Len(c.waits) - 1)

\* C1: whatever the capacity of the semaphore and however many listing
\* tasks a page fans out, the number of requests in flight never exceeds
\* the capacity.
C1_InFlightBounded == Cardinality(InFlight) <= max_concurrent

\* More listing tasks fetch than there are permits: every permit is out
\* and a task waits for one.
C1_Witness ==
    /\ Cardinality(Fetching) > max_concurrent
    /\ Cardinality(InFlight) = max_concurrent
    /\ Waiting # {}

\* C2: a listing task started on a card whose identifier is in scraped_ids
\* at that moment gets None from extract_listing_info and ends there: it
\* issues no request and nothing is written to the sink; and a task that
\* ended so has no call of fetch_with_retry.
C2_KnownIdSkipped ==
    /\ [][\A t \in TaskIds :
            (/\ tasks[t].pc = "new"
             /\ tasks'[t].pc # "new"
             /\ tasks'[t].outcome # "cancelled"
             /\ tasks[t].card.elan_id \in scraped_ids)
            => /\ tasks'[t].pc = "done"
               /\ tasks'[t].outcome = "no_info"
               /\ calls'[t] = NoCall
               /\ semaphore' = semaphore
               /\ handed' = handed
               /\ output_file' = output_file
               /\ backup_file' = backup_file]_vars
    /\ [](\A t \in TaskIds : tasks[t].outcome = "no_info" =>
             tasks[t].pc = "done" /\ calls[t] = NoCall)

\* A card with a marker was skipped because its identifier was known.
C2_Witness ==
    \E t \in TaskIds :
        /\ tasks[t].outcome = "no_info"
        /\ tasks[t].card.elan_id # 0
        /\ tasks[t].card.elan_id \in scraped_ids

\* C3 (as claimed): in one run the sink receives at most one record per
\* identifier.
C3_OneRecordPerIdentifier == \A i \in SiteIds : handed[i] <= 1

\* C4 (as claimed): after a kill and a restart on the same files the sink
\* holds at most one record per identifier.
C4_NoDuplicateAfterRestart ==
    \A i \in SiteIds : Count(output_file.rows, i) + Count(backup_file, i) <= 1

\* C5: a call of fetch_with_retry on a url that answers 404 makes one
\* attempt, never sleeps, and returns None on the not-found branch.
C5_NotFoundOneAttempt ==
    \A t \in DOMAIN calls :
        calls[t].url \in absent =>
            /\ calls[t].tries <= 1
            /\ calls[t].attempt = 0
            /\ calls[t].waits = <<>>
            /\ calls[t].pc \in {"acquire", "inflight", "returned"}
            /\ calls[t].pc = "returned" =>
                  calls[t].ret = "notfound" /\ calls[t].tries = 1

\* A call on an absent url has returned.
C5_Witness ==
    \E t \in DOMAIN calls :
        /\ calls[t].url \in absent
        /\ calls[t].pc = "returned"
        /\ calls[t].ret = "notfound"
        /\ calls[t].tries = 1

\* C6 (as claimed): a call whose attempts all failed transiently made
\* MaxRetries attempts, with non-decreasing delays between them, and its
\* url is in failed_urls.
C6_ExhaustedContract ==
    \A t \in DOMAIN calls :
        calls[t].pc = "returned" /\ calls[t].ret = "exhausted" =>
            /\ calls[t].tries = MaxRetries
            /\ NonDecreasing(InterAttemptDelays(calls[t]))
            /\ \E k \in DOMAIN failed_urls : failed_urls[k] = calls[t].url

\* C7 (as claimed): every failed attempt k (from 0) that another attempt
\* follows is followed by a sleep of 2^k.
C7_BackoffAfterEveryFailure ==
    \A t \in DOMAIN calls :
        \A k \in DOMAIN calls[t].waits :
            k < MaxRetries => calls[t].waits[k] = 2 ^ (k - 1)

\* C8 (as claimed): every record passed to write_to_csv is a row of the
\* csv file or a line of a backup file.
C8_NoRecordLost ==
    \A i \in SiteIds :
        handed[i] = Count(output_file.rows, i) + Count(backup_file, i)

\* C9 (as claimed): a process that an interrupt has ended has saved its
\* scraped_ids and its failed_urls.
C9_InterruptFlushes ==
    interrupted /\ pc = "exited" =>
        /\ progress_file = [exists |-> TRUE, ids |-> scraped_ids]
        /\ failed_file = [exists |-> TRUE, urls |-> failed_urls,
                          count |-> Len(failed_urls)]

\* C10: the page number only grows, by one at a time, and only when every
\* listing task of the page has finished; while a listing task runs, the
\* main task waits in gather for the page the task belongs to and has no
\* request of its own.
C10_PagesInOrder ==
    /\ [][\/ page' = page
          \/ /\ page' = page + 1
             /\ \A t \in TaskIds : tasks[t].pc \in {"none", "done"}]_vars
    /\ [](\A t \in TaskIds :
             tasks[t].pc \in {"new", "fetch"} =>
                /\ pc = "gather"
                /\ tasks[t].page = page
                /\ calls[MainTask].pc \notin {"acquire", "inflight", "sleep"})

\* On the second page, the second task has committed its record while the
\* first task of the page is still fetching.
C10_Witness ==
    /\ page = 2
    /\ pc = "gather"
    /\ tasks[1].pc = "fetch"
    /\ tasks[2].pc = "done"
    /\ tasks[2].outcome = "committed"

\* The records the sink holds: the rows of the csv file after its header
\* and the lines of the backup files.
Committed ==
    (IF output_file.exists THEN Len(output_file.rows) - 1 ELSE 0) + Len(backup_file)

InSink(i) == Count(output_file.rows, i) + Count(backup_file, i)

CrawlPass == pc \in {"fetch_page", "gather", "page_delay"}

\* C11: scrape_page calls fetch_with_retry once for every page number that
\* scrape_pages has reached and for no other, and once for every page of
\* the range when the crawl pass has ended; when the call returned None
\* the page has no listing task and the main task is in the sleep that
\* precedes the next page.
C11_OneFetchPerPage ==
    /\ \A n \in DOMAIN site : page_fetches[n] = IF n <= page THEN 1 ELSE 0
    /\ pc \in {"retry", "done"} => \A n \in DOMAIN site : page_fetches[n] = 1
    /\ (/\ CrawlPass
        /\ calls[MainTask].pc = "returned"
        /\ calls[MainTask].ret \in {"notfound", "exhausted"})
       => /\ pc = "page_delay"
          /\ calls[MainTask].url = PageUrl(page)
          /\ \A t \in TaskIds : tasks[t] = NoTask

\* The fetch of the first page exhausted its retries, and the listing
\* tasks of the second page are running.
C11_Witness ==
    /\ page = 2
    /\ pc = "gather"
    /\ page_fetches[1] = 1
    /\ \E k \in DOMAIN failed_urls : failed_urls[k] = PageUrl(1)

\* C12 (as claimed): when the retry pass has fetched the body of a detail
\* page, the listing's record is in the sink and its identifier in
\* scraped_ids.
C12_RetryCommits ==
    (/\ pc = "done"
     /\ calls[MainTask].pc = "returned"
     /\ calls[MainTask].ret = "body"
     /\ calls[MainTask].url.kind = "detail")
    => /\ calls[MainTask].url.n \in scraped_ids
       /\ InSink(calls[MainTask].url.n) >= 1

\* C13 (as claimed): a record commit saves the progress exactly when the
\* number of records committed in the run is a multiple of SaveEvery.
C13_EveryTenthSuccess ==
    [][Committed' = Committed + 1 =>
          ((progress_file' # progress_file) <=> (Committed' % SaveEvery = 0))]_vars

\* C13 (amended): a record commit saves the progress exactly when the size
\* of scraped_ids after the commit, loaded identifiers included, is a
\* multiple of SaveEvery; otherwise the progress file is left as it is.
C13_SavedBySetSize ==
    [][Committed' = Committed + 1 =>
          progress_file' =
             IF Cardinality(scraped_ids') % SaveEvery = 0
             THEN [exists |-> TRUE, ids |-> scraped_ids']
             ELSE progress_file]_vars

\* The first commit of a run that loaded SaveEvery - 1 identifiers has
\* saved the progress, and the run goes on.
C13_Witness ==
    /\ Alive
    /\ Committed = 1
    /\ Cardinality(loaded) = SaveEvery - 1
    /\ progress_file = [exists |-> TRUE, ids |-> scraped_ids]
    /\ Cardinality(scraped_ids) = SaveEvery

\* C14: every identifier in scraped_ids was loaded from the progress file
\* at startup or is the identifier of a record in the csv file or in a
\* backup file.
C14_AddedAfterWritten ==
    \A i \in scraped_ids : i \in loaded \/ InSink(i) >= 1

\* One record went to a backup file and its identifier was added; another
\* was lost to an exception of write_to_csv and its identifier was not.
C14_Witness ==
    /\ \E i \in scraped_ids \ loaded : Count(backup_file, i) >= 1
    /\ \E j \in SiteIds : handed[j] >= 1 /\ InSink(j) = 0 /\ j \notin scraped_ids

\* C15: when the crawl of the two pages and the retry pass have ended, the
\* csv file holds one row for each of the two listings of the first page
\* that were not loaded and none for the loaded one or for the listing of
\* the second page, no backup file was written, failed_urls and the saved
\* document hold one entry, and the progress file holds the loaded
\* identifiers and those two.
C15_Scenario ==
    pc = "done" =>
        /\ \A i \in {1, 2, 3} \ loaded : Count(output_file.rows, i) = 1
        /\ \A i \in loaded \cup {4} : Count(output_file.rows, i) = 0
        /\ Len(output_file.rows) = 3
        /\ backup_file = <<>>
        /\ Len(failed_urls) = 1
        /\ failed_file.exists /\ Len(failed_file.urls) = 1 /\ failed_file.count = 1
        /\ progress_file = [exists |-> TRUE, ids |-> loaded \cup ({1, 2, 3} \ loaded)]
        /\ Cardinality(progress_file.ids \ loaded) = 2

\* The scenario has run to its end.
C15_Witness ==
    /\ pc = "done"
    /\ Cardinality(loaded) = 1
    /\ Committed = 2
    /\ failed_urls = <<DetailUrl(4)>>
    /\ page_fetches[2] = 1

\* C16 (as claimed): a save that fails leaves scraped_ids and failed_urls
\* as they are, and what follows the crawl pass goes by failed_urls: the
\* retry pass runs when the list is not empty, and fetches its urls.
C16_MemoryAuthoritative ==
    [][(pc = "page_delay" /\ pc' \in {"retry", "done"}) =>
          /\ scraped_ids' = scraped_ids
          /\ IF failed_urls # <<>>
             THEN /\ pc' = "retry"
                  /\ <<calls'[MainTask].url>> \o retry_list' = failed_urls
             ELSE pc' = "done"]_vars

\* C17: the csv file, when it exists, starts with the header, holds no
\* other header, and holds one row for every record passed to
\* write_to_csv, in the first run and in the second; before the first
\* record it does not exist.
C17_HeaderOnce ==
    IF output_file.exists
    THEN /\ Len(output_file.rows) >= 2
         /\ output_file.rows[1] = HeaderRow
         /\ Count(output_file.rows, HeaderRow) = 1
         /\ \A k \in DOMAIN output_file.rows :
               output_file.rows[k] \in {HeaderRow} \cup SiteIds
         /\ \A i \in SiteIds : Count(output_file.rows, i) = handed[i]
    ELSE /\ output_file.rows = <<>>
         /\ \A i \in SiteIds : handed[i] = 0

\* The second run has appended a record to the file the first run left.
C17_Witness ==
    /\ restarted
    /\ Len(output_file.rows) >= 3
    /\ \E t \in TaskIds : tasks[t].outcome = "committed"

\* C18: the step in which a listing task fails (its detail fetch returned
\* None, or write_to_csv raised) leaves the main task where it is and
\* every other listing task and its call as they are.
C18_FailureSwallowed ==
    [][\A t \in TaskIds :
          (tasks[t].pc = "fetch" /\ tasks'[t].outcome \in {"fetch_empty", "error"})
          => /\ pc' = pc
             /\ page' = page
             /\ session' = session
             /\ \A u \in TaskIds \ {t} :
                   tasks'[u] = tasks[u] /\ calls'[u] = calls[u]]_vars

\* A task of the first page failed on a write error, the other committed
\* its record, and the main task has gone on to the second page.
C18_Witness ==
    /\ page = 2
    /\ \E t, u \in TaskIds :
          /\ tasks[t].page = 1
          /\ tasks[t].outcome = "error"
          /\ tasks[u].page = 1
          /\ tasks[u].outcome = "committed"

\* C19: the step in which the detail fetch of a listing task returns None
\* ends the task and leaves the csv file, the backup files, scraped_ids
\* and the progress file as they are.
C19_EmptyFetchSkips ==
    [][\A t \in TaskIds :
          (/\ calls[t].pc # "returned"
           /\ calls'[t].pc = "returned"
           /\ calls'[t].ret \in {"notfound", "exhausted"})
          => /\ tasks'[t].pc = "done"
             /\ tasks'[t].outcome = "fetch_empty"
             /\ handed' = handed
             /\ output_file' = output_file
             /\ backup_file' = backup_file
             /\ scraped_ids' = scraped_ids
             /\ progress_file' = progress_file]_vars

\* A listing task ended on an empty detail fetch; its identifier is not in
\* scraped_ids and no record of it was written.
C19_Witness ==
    \E t \in TaskIds :
        /\ tasks[t].outcome = "fetch_empty"
        /\ calls[t].ret \in {"notfound", "exhausted"}
        /\ tasks[t].card.elan_id \notin scraped_ids
        /\ handed[tasks[t].card.elan_id] = 0

\* C20: after the saves that end the crawl pass the progress file holds
\* scraped_ids and nothing else, and the failed-urls document holds a list
\* and its length; after the save that ends the retry pass the document
\* holds failed_urls and its length, and nothing of the document before.
C20_FullRewrite ==
    /\ pc \in {"retry", "done"} =>
          /\ progress_file = [exists |-> TRUE, ids |-> scraped_ids]
          /\ failed_file.exists
          /\ failed_file.count = Len(failed_file.urls)
    /\ pc = "done" =>
          failed_file = [exists |-> TRUE, urls |-> failed_urls,
                         count |-> Len(failed_urls)]

\* The retry pass fetched every url of the document, and its save replaced
\* the document by an empty list.
C20_Witness ==
    /\ pc = "done"
    /\ calls[MainTask].pc = "returned"
    /\ calls[MainTask].ret = "body"
    /\ failed_urls = <<>>
    /\ failed_file = [exists |-> TRUE, urls |-> <<>>, count |-> 0]

\* A text that is a plain number
IsNumber(t) == t # <<>> /\ \A i \in DOMAIN t : t[i] \in Digits

\* C21 (as claimed): the record's room_count never carries a number of 20
\* or more, and its area_sqm never a number outside (10, 1000).
C21_FieldsBounded ==
    stage \in {"extracted", "cleaned"} =>
        /\ IsNumber(full_data["room_count"]) => int(full_data["room_count"]) < 20
        /\ IsNumber(full_data["area_sqm"]) =>
              10 < int(full_data["area_sqm"]) /\ int(full_data["area_sqm"]) < 1000

\* C21 (amended): the record carries the stripped text of the cell, whatever
\* its value; the bounds are those of generate_charts.py, whose rooms_clean
\* is None for 20 rooms or more and whose area_clean is None for an area
\* outside (10, 1000).
C21_CleanedBounded ==
    /\ (stage \in {"extracted", "cleaned"} /\ html \in ValuePages) =>
          \A f \in {"room_count", "area_sqm"} :
              full_data[f] = IF html.rows[1][1] = <<FieldLabels[f]>>
                             THEN strip(html.rows[1][2]) ELSE <<>>
    /\ stage = "cleaned" =>
          /\ cleaned.rooms_clean.some => cleaned.rooms_clean.num < 20
          /\ cleaned.area_clean.some =>
                /\ 10 * cleaned.area_clean.den < cleaned.area_clean.num
                /\ cleaned.area_clean.num < 1000 * cleaned.area_clean.den
          /\ IsNumber(full_data["room_count"]) =>
                cleaned.rooms_clean =
                   IF int(full_data["room_count"]) < 20
                   THEN Number(int(full_data["room_count"]), 1) ELSE Nothing
          /\ IsNumber(full_data["area_sqm"]) =>
                cleaned.area_clean =
                   IF 10 < int(full_data["area_sqm"]) /\ int(full_data["area_sqm"]) < 1000
                   THEN Number(int(full_data["area_sqm"]), 1) ELSE Nothing

\* The record carries a room count of 20, and rooms_clean is None.
C21_Witness ==
    /\ stage = "cleaned"
    /\ full_data["room_count"] = <<"2", "0">>
    /\ cleaned.rooms_clean = Nothing

\* C22 (as claimed): from the page with the one row "Otaq sayi": "3" and a
\* partial record with the identifier only, the record has room_count "3"
\* and every other field but the identifier is empty or absent.
C22_OnlyRoomCount ==
    (stage \in {"extracted", "cleaned"} /\ html = MinimalPage) =>
        /\ full_data["room_count"] = <<"3">>
        /\ \A f \in DOMAIN full_data \ {"elan_id", "room_count"} : full_data[f] = <<>>

\* C22 (amended): from that page the record has the identifier,
\* room_count "3", every other mapped field and images empty, no
\* description, and also all_properties with the one pair and scraped_at
\* with the time; from any page each mapped field holds the stripped value
\* of the last two-cell row with its label and a non-empty value, and is
\* empty when there is none.
C22_MappedFields ==
    /\ (stage \in {"extracted", "cleaned"} /\ html = MinimalPage) =>
          /\ DOMAIN full_data =
                MappedFields \cup {"elan_id", "images", "all_properties", "scraped_at"}
          /\ full_data["elan_id"] = basic_info["elan_id"]
          /\ full_data["room_count"] = <<"3">>
          /\ \A f \in (MappedFields \ {"room_count"}) \cup {"images"} : full_data[f] = <<>>
          /\ full_data["all_properties"] = <<"{", "Otaq sayi", ":", "3", ";", "}">>
          /\ full_data["scraped_at"] = Now
    /\ stage \in {"extracted", "cleaned"} =>
          \A f \in MappedFields :
              LET hits == {i \in DOMAIN html.rows :
                              /\ Len(html.rows[i]) = 2
                              /\ strip(html.rows[i][1]) = <<FieldLabels[f]>>
                              /\ strip(html.rows[i][2]) # <<>>}
              IN full_data[f] =
                    IF hits = {} THEN <<>>
                    ELSE strip(html.rows[CHOOSE i \in hits : \A j \in hits : j <= i][2])

\* The minimal page has been extracted.
C22_Witness ==
    /\ stage = "extracted"
    /\ html = MinimalPage
    /\ basic_info = OnlyId
    /\ full_data["room_count"] = <<"3">>

\* C23: a run that no interrupt reaches ends: the main task reaches the
\* end of main with the session closed, the progress file holding
\* scraped_ids and the failed-urls document holding failed_urls.
C23_Terminates ==
    <>(/\ pc = "done"
       /\ session = "closed"
       /\ progress_file = [exists |-> TRUE, ids |-> scraped_ids]
       /\ failed_file = [exists |-> TRUE, urls |-> failed_urls,
                         count |-> Len(failed_urls)])

\* A run has ended after a page fetch that exhausted its retries and a
\* retry pass.
C23_Witness ==
    /\ pc = "done"
    /\ session = "closed"
    /\ page = Len(site)
    /\ calls[MainTask].pc = "returned"
    /\ calls[MainTask].ret = "exhausted"
    /\ failed_urls # <<>>

Sleeping == {t \in DOMAIN calls : calls[t].pc = "sleep"}

\* C24: the permits that are out are those of the requests in flight: a
\* task in a backoff sleep holds none, and while tasks sleep a task that
\* waits for a permit finds one free or another request in flight.
C24_NoPermitInSleep ==
    /\ max_concurrent - semaphore <= Cardinality(DOMAIN calls \ Sleeping)
    /\ max_concurrent - semaphore = Cardinality(InFlight \ Sleeping)
    /\ (Sleeping # {} /\ Waiting # {}) => (semaphore > 0 \/ InFlight # {})
    /\ (Sleeping # {} /\ InFlight = {}) => semaphore = max_concurrent

\* With one permit, a task sleeps between two attempts while the request
\* of another task is in flight.
C24_Witness ==
    /\ max_concurrent = 1
    /\ \E t, u \in TaskIds :
          /\ calls[t].pc = "sleep"
          /\ calls[t].attempt < MaxRetries - 1
          /\ calls[u].pc = "inflight"

\* C25: the free permits and the requests in flight add up to the
\* capacity, the semaphore is never negative, and every permit is free
\* when no request is in flight: after a return, a status that is retried,
\* an exception, and a cancellation.
C25_PermitsConserved ==
    /\ semaphore >= 0
    /\ semaphore + Cardinality(InFlight) = max_concurrent
    /\ InFlight = {} => semaphore = max_concurrent
    /\ pc \in {"done", "exited"} => semaphore = max_concurrent

\* An interrupt has cancelled a listing task after the call of another
\* had failed at every attempt, and every permit is free.
C25_Witness ==
    /\ pc = "exited"
    /\ interrupted
    /\ semaphore = max_concurrent
    /\ \E t \in TaskIds : tasks[t].outcome = "cancelled"
    /\ \E k \in DOMAIN failed_urls : failed_urls[k].kind = "detail"

\* C26: failed_urls changes only by the reset that starts the retry pass
\* and by the append of the url of a call whose MaxRetries attempts have
\* all failed; a call that ends with MaxRetries failed attempts appends
\* its url once; and no url of a page the site no longer has is in
\* failed_urls.
C26_LoggedIffExhausted ==
    /\ [][\/ failed_urls' = failed_urls
          \/ pc = "page_delay" /\ pc' = "retry" /\ failed_urls' = <<>>
          \/ \E t \in DOMAIN calls :
                /\ calls[t].pc \in {"inflight", "sleep"}
                /\ calls[t].attempt = MaxRetries - 1
                /\ calls[t].tries = MaxRetries
                /\ failed_urls' = Append(failed_urls, calls[t].url)]_vars
    /\ [][\A t \in DOMAIN calls :
             (calls'[t].pc = "returned" /\ calls[t].pc # "returned") =>
                 failed_urls' = IF calls'[t].ret = "exhausted"
                                THEN Append(failed_urls, calls[t].url)
                                ELSE failed_urls]_vars
    /\ [](\A k \in DOMAIN failed_urls : failed_urls[k] \notin absent)

\* A listing task's call has exhausted its attempts and its url is the one
\* entry of failed_urls, while the call of another task returned a body.
C26_Witness ==
    \E t, u \in TaskIds :
        /\ calls[t].pc = "returned"
        /\ calls[t].ret = "exhausted"
        /\ calls[t].tries = MaxRetries
        /\ failed_urls = <<calls[t].url>>
        /\ calls[u].pc = "returned"
        /\ calls[u].ret = "body"

\* C27: in every state of a run, the identifier of every record in the
\* csv file or in a backup file is in scraped_ids, and when the size of
\* scraped_ids is a multiple of SaveEvery, in the progress file as well.
C27_CommitAtomic ==
    /\ \A i \in SiteIds : InSink(i) >= 1 => i \in scraped_ids
    /\ (Committed >= 1 /\ Cardinality(scraped_ids) % SaveEvery = 0)
          => progress_file = [exists |-> TRUE, ids |-> scraped_ids]

\* A task has committed its record, the tenth identifier, and the progress
\* is saved, while another task of the page waits for its detail page.
C27_Witness ==
    \E t, u \in TaskIds :
        /\ tasks[t].outcome = "committed"
        /\ InSink(tasks[t].card.elan_id) = 1
        /\ tasks[t].card.elan_id \in scraped_ids
        /\ tasks[u].pc = "fetch"
        /\ calls[u].pc = "inflight"
        /\ Cardinality(scraped_ids) = SaveEvery
        /\ progress_file.ids = scraped_ids

\* C28 (as claimed): a call of fetch_with_retry sleeps at most
\* MaxRetries - 1 times, and never after its last attempt.
C28_NoSleepAfterLastAttempt ==
    \A t \in DOMAIN calls :
        /\ calls[t].pc = "sleep" => calls[t].attempt < MaxRetries - 1
        /\ Len(calls[t].waits) - Count(calls[t].waits, 0) <= MaxRetries - 1

====
